---- MODULE Spec2Model ----
(***************************************************************************)
(* Nearest-point search of the Kokkos tutorial exercise                    *)
(* 04_05_NearestPoint/Kokkos-Struct/nearest_point.cpp.                     *)
(*                                                                         *)
(* main() fills a View of num_points 3-D points, draws a search point and  *)
(* runs, nrepeat times, a Kokkos::parallel_reduce whose reduction value is *)
(* a MinFinder (value, index) combined by the overloaded operator +=.      *)
(*                                                                         *)
(* Doubles are modelled by what the code does with them: subtraction,      *)
(* multiplication, addition and the comparison <.  A double is a record    *)
(*   [k |-> "fin",  v |-> n]   the integer n, exactly (|n| < 2^53)         *)
(*   [k |-> "e200", v |-> 0]   the literal 1.0e200 of MinFinder()          *)
(*   [k |-> "inf",  v |-> s]   s = 1: +infinity, s = -1: -infinity         *)
(*   [k |-> "nan",  v |-> 0]   NaN                                         *)
(* and, for what a read outside the View may bring back,                   *)
(*   [k |-> "btw",  v |-> n]   a double strictly between n and n + 1       *)
(*   [k |-> "big",  v |-> 0]   a finite double above every integer of the  *)
(*                             model and below 1.0e200                     *)
(*   [k |-> "huge", v |-> 0]   a finite double above 1.0e200               *)
(***************************************************************************)
EXTENDS Integers, Sequences, FiniteSets

\* ------------------------------------------------------------------------
\* Bounds of the model.
\* ------------------------------------------------------------------------
\* largest coordinate the generator hands out (rand() % (1024*1024) in the code)
MaxCoord == 1
\* largest num_points (-p)
MaxPoints == 2
\* number of worker threads the executor may use
MaxWorkers == 2
\* nrepeat (-nrepeat)
NRepeat == 2
\* largest squared distance / index of the operands fed to += on its own
MaxVal == 3
MaxIdx == 2

\* ------------------------------------------------------------------------
\* Doubles.
\* ------------------------------------------------------------------------
Fin(n) == [k |-> "fin", v |-> n]
E200 == [k |-> "e200", v |-> 0]
PInf == [k |-> "inf", v |-> 1]
NaN == [k |-> "nan", v |-> 0]
Btw(n) == [k |-> "btw", v |-> n]
Big == [k |-> "big", v |-> 0]
Huge == [k |-> "huge", v |-> 0]

\* a - b on doubles whose finite values are small integers
DSub(a, b) ==
  IF a.k = "nan" \/ b.k = "nan" THEN NaN
  ELSE IF a.k = "inf" /\ b.k = "inf" THEN (IF a.v = b.v THEN NaN ELSE a)
  ELSE IF a.k = "inf" THEN a
  ELSE IF b.k = "inf" THEN [k |-> "inf", v |-> 0 - b.v]
  ELSE Fin(a.v - b.v)

\* a * b
DMul(a, b) ==
  IF a.k = "nan" \/ b.k = "nan" THEN NaN
  ELSE IF a.k = "inf" /\ b.k = "inf" THEN [k |-> "inf", v |-> a.v * b.v]
  ELSE IF a.k = "inf"
    THEN (IF b.v = 0 THEN NaN ELSE [k |-> "inf", v |-> IF b.v > 0 THEN a.v ELSE 0 - a.v])
  ELSE IF b.k = "inf"
    THEN (IF a.v = 0 THEN NaN ELSE [k |-> "inf", v |-> IF a.v > 0 THEN b.v ELSE 0 - b.v])
  ELSE Fin(a.v * b.v)

\* a + b
DAdd(a, b) ==
  IF a.k = "nan" \/ b.k = "nan" THEN NaN
  ELSE IF a.k = "inf" /\ b.k = "inf" THEN (IF a.v = b.v THEN a ELSE NaN)
  ELSE IF a.k = "inf" THEN a
  ELSE IF b.k = "inf" THEN b
  ELSE Fin(a.v + b.v)

\* position of a non-NaN double among
\* -inf < integers and the doubles between them < big < 1.0e200 < huge < +inf
DRank(a) ==
  IF a.k = "inf" THEN (IF a.v < 0 THEN 0 ELSE 5)
  ELSE IF a.k = "huge" THEN 4
  ELSE IF a.k = "e200" THEN 3
  ELSE IF a.k = "big" THEN 2
  ELSE 1

\* position of an integer n (2n) or of a double between n and n + 1 (2n + 1)
DKey(a) == IF a.k = "btw" THEN 2 * a.v + 1 ELSE 2 * a.v

\* a < b: false whenever an operand is NaN
DLess(a, b) ==
  /\ a.k # "nan"
  /\ b.k # "nan"
  /\ \/ DRank(a) < DRank(b)
     \/ DRank(a) = 1 /\ DRank(b) = 1 /\ DKey(a) < DKey(b)

\* ------------------------------------------------------------------------
\* struct MinFinder.
\* ------------------------------------------------------------------------
\* a mutation of MinFinder(): the members start from zero
MinFinderZero == [value |-> Fin(0), index |-> 0]

\* MinFinder(): value(1.0e200), index(-1)
MinFinderDefault == [value |-> E200, index |-> -1]

\* MinFinder(const double& value_, const int& index_)
MinFinderOf(value_, index_) == [value |-> value_, index |-> index_]

\* a mutation of operator=: the index is not copied
AssignValueOnly(self, f) == [value |-> f.value, index |-> self.index]

\* void operator = (const volatile MinFinder& f) volatile
Assign(self, f) == [value |-> f.value, index |-> f.index]

\* a mutation of operator+=: the comparison is dropped, f always overwrites
PlusEqNoGuard(self, f) == [value |-> f.value, index |-> f.index]

\* a mutation of operator+=: the comparison is turned around
PlusEqGreater(self, f) ==
  IF DLess(self.value, f.value)
    THEN [value |-> f.value, index |-> f.index]
    ELSE self

\* a mutation of operator+=: the value is taken, the index is left behind
PlusEqValueOnly(self, f) ==
  IF DLess(f.value, self.value)
    THEN [value |-> f.value, index |-> self.index]
    ELSE self

\* a mutation of operator+=: < is written <=, a tie overwrites as well
PlusEqLessEq(self, f) ==
  IF DLess(self.value, f.value) \/ self.value.k = "nan" \/ f.value.k = "nan"
    THEN self
    ELSE [value |-> f.value, index |-> f.index]

\* void operator += (const volatile MinFinder& f) volatile
PlusEq(self, f) ==
  IF DLess(f.value, self.value)
    THEN [value |-> f.value, index |-> f.index]
    ELSE self

\* ------------------------------------------------------------------------
\* State of main().
\* ------------------------------------------------------------------------
VARIABLES
  num_points,  \* int num_points
  points,      \* Kokkos::View<double*[3]> points: index -> <<x, y, z>>
  search,      \* <<search_x, search_y, search_z>>
  repeat,      \* loop counter of the repeat loop
  pc,          \* position of main(): "loop", "reduce", "print", "done", "op";
               \* "fault" once a read outside the View has ended the process
  minf,        \* MinFinder minf of the current iteration
  printed,     \* the (index, value) lines printf has written, in order
  owner,       \* executor: the worker each visited index was handed to
  visited,     \* the indices the lambda body has been run on in this call
  partial,     \* executor: each worker's private reduction value
  joined,      \* executor: workers whose partial has been joined into another
  merges,      \* executor: times each worker's partial was merged in this call
  acc,         \* += on its own: the accumulator
  accBefore,   \* += on its own: the accumulator before the last +=
  arg,         \* += on its own: the operand of the last +=
  applied      \* += on its own: whether a += has run

vars == <<num_points, points, search, repeat, pc, minf, printed,
          owner, visited, partial, joined, merges, acc, accBefore, arg, applied>>

execVars == <<owner, visited, partial, joined, merges>>
storeVars == <<num_points, points, search>>
opVars == <<acc, accBefore, arg, applied>>

\* the worker threads of the executor
Workers == 1..MaxWorkers

\* a mutation of the call: the range handed to parallel_reduce is num_points + 1
IndicesOneMore == 0..num_points

\* the range of Kokkos::parallel_reduce(num_points, ...)
Indices == 0..(num_points - 1)

\* the values rand() % (1024*1024) can take, scaled down to 0..MaxCoord
Coords == {Fin(c) : c \in 0..MaxCoord}

\* the points the generator loop may store, cut down to the x axis at
\* 0..MaxCoord and one step from the origin along y and along z
PointSet ==
  {<<c, Fin(0), Fin(0)>> : c \in Coords}
    \cup {<<Fin(0), Fin(1), Fin(0)>>, <<Fin(0), Fin(0), Fin(1)>>}

\* points(i, d)
View(i, d) == points[i][d + 1]

\* a mutation of the lambda's distance: the differences are sums
Dist2Sum(i) ==
  LET dx == DAdd(search[1], View(i, 0))
      dy == DAdd(search[2], View(i, 1))
      dz == DAdd(search[3], View(i, 2))
  IN  DAdd(DAdd(DMul(dx, dx), DMul(dy, dy)), DMul(dz, dz))

\* const double dist2 = dx*dx + dy*dy + dz*dz
Dist2(i) ==
  LET dx == DSub(search[1], View(i, 0))
      dy == DSub(search[2], View(i, 1))
      dz == DSub(search[3], View(i, 2))
  IN  DAdd(DAdd(DMul(dx, dx), DMul(dy, dy)), DMul(dz, dz))

\* a mutation of the lambda: tmp is built with index 0 instead of i
BodyIndexZero(i, f) == PlusEq(f, MinFinderOf(Dist2(i), 0))

\* the lambda body applied to index i and the reduction value f
Body(i, f) == PlusEq(f, MinFinderOf(Dist2(i), i))

\* the cells of the View the lambda reads for index i:
\* points(i,0), points(i,1), points(i,2)
Reads(i) == {<<i, d>> : d \in 0..2}

\* the cells of Kokkos::View<double*[3]> points("points", num_points)
ViewCells == {<<i, d>> : i \in DOMAIN points, d \in 0..2}

\* the largest dist2 the lambda computes from coordinates of 0..MaxCoord
MaxDist2 == 3 * MaxCoord * MaxCoord

\* what dist2 may come out when a coordinate is read outside the View: the read
\* is undefined and dx*dx + dy*dy + dz*dz of whatever comes back is any double
\* >= 0, +infinity or NaN: every integer up to MaxDist2, a double in every gap
\* between them, and doubles above them below, at and above 1.0e200
AnyDist2 ==
  {Fin(n) : n \in 0..MaxDist2} \cup {Btw(n) : n \in 0..(MaxDist2 - 1)}
    \cup {Big, E200, Huge, PInf, NaN}

\* the executor starts every worker's partial from MinFinder()
InitPartials == [w \in Workers |-> MinFinderDefault]

\* the barrier before the joins: every index has been handed out and folded
AllFolded == visited = Indices

NoOwner == [i \in {} |-> 1]

NoMerges == [w \in Workers |-> 0]

OpIdle ==
  /\ acc = MinFinderDefault
  /\ accBefore = MinFinderDefault
  /\ arg = MinFinderDefault
  /\ applied = FALSE

\* ------------------------------------------------------------------------
\* main(): the state when the repeat loop is reached.
\* ------------------------------------------------------------------------
Init ==
  /\ num_points \in 0..MaxPoints
  /\ points \in [0..(num_points - 1) -> PointSet]
  /\ search \in PointSet
  /\ repeat = 0
  /\ pc = "loop"
  /\ minf = MinFinderDefault
  /\ printed = <<>>
  /\ owner = NoOwner
  /\ visited = {}
  /\ partial = InitPartials
  /\ joined = {}
  /\ merges = NoMerges
  /\ OpIdle

\* a mutation of main(): minf is declared before the loop and lives on from
\* one iteration to the next
LoopEnterKeepsMinf ==
  /\ pc = "loop"
  /\ repeat < NRepeat
  /\ minf' = minf
  /\ owner' = NoOwner
  /\ visited' = {}
  /\ partial' = InitPartials
  /\ joined' = {}
  /\ merges' = NoMerges
  /\ pc' = "reduce"
  /\ UNCHANGED <<storeVars, repeat, printed, opVars>>

\* for (repeat < nrepeat) { MinFinder minf; Kokkos::parallel_reduce(num_points, ...
\* the executor initialises every worker's partial
LoopEnter ==
  /\ pc = "loop"
  /\ repeat < NRepeat
  /\ minf' = MinFinderDefault
  /\ owner' = NoOwner
  /\ visited' = {}
  /\ partial' = InitPartials
  /\ joined' = {}
  /\ merges' = NoMerges
  /\ pc' = "reduce"
  /\ UNCHANGED <<storeVars, repeat, printed, opVars>>

\* the executor hands index i, not handed out before in this call, to worker w
HandOut(w, i) ==
  /\ i \in Indices \ visited
  /\ visited' = visited \cup {i}
  /\ owner' = [j \in visited \cup {i} |-> IF j = i THEN w ELSE owner[j]]

\* a mutation of the lambda: it also stores the search point over point i
RunLambdaClobber(w, i) ==
  /\ IF Reads(i) \subseteq ViewCells
       THEN /\ partial' = [partial EXCEPT ![w] = Body(i, partial[w])]
            /\ pc' = pc
       ELSE \/ \E g \in AnyDist2 :
                 /\ partial' =
                      [partial EXCEPT ![w] = PlusEq(partial[w], MinFinderOf(g, i))]
                 /\ pc' = pc
            \/ /\ partial' = partial
               /\ pc' = "fault"
  /\ points' = [j \in DOMAIN points |-> IF j = i THEN search ELSE points[j]]
  /\ UNCHANGED <<num_points, search>>

\* the lambda run on index i with worker w's partial as its reduction value f:
\* it reads points(i, 0..2) and the search point and writes f, nothing else; a
\* read outside the View is undefined: it brings back any double or faults
RunLambda(w, i) ==
  /\ IF Reads(i) \subseteq ViewCells
       THEN /\ partial' = [partial EXCEPT ![w] = Body(i, partial[w])]
            /\ pc' = pc
       ELSE \/ \E g \in AnyDist2 :
                 /\ partial' =
                      [partial EXCEPT ![w] = PlusEq(partial[w], MinFinderOf(g, i))]
                 /\ pc' = pc
            \/ /\ partial' = partial
               /\ pc' = "fault"
  /\ UNCHANGED <<num_points, points, search>>

\* worker w is handed index i and runs the lambda body on it
Fold(w, i) ==
  /\ pc = "reduce"
  /\ HandOut(w, i)
  /\ RunLambda(w, i)
  /\ UNCHANGED <<repeat, minf, printed, joined, merges, opVars>>

\* a mutation of the executor: a partial already joined may be joined again
JoinAgain(d, s) ==
  /\ pc = "reduce"
  /\ AllFolded
  /\ d # s
  /\ d \notin joined
  /\ partial' = [partial EXCEPT ![d] = PlusEq(partial[d], partial[s])]
  /\ joined' = joined \cup {s}
  /\ merges' = [merges EXCEPT ![s] = merges[s] + 1]
  /\ UNCHANGED <<storeVars, repeat, pc, minf, printed, owner, visited, opVars>>

\* past the barrier the executor joins the partial of worker s into that of d
Join(d, s) ==
  /\ pc = "reduce"
  /\ AllFolded
  /\ d # s
  /\ d \notin joined
  /\ s \notin joined
  /\ partial' = [partial EXCEPT ![d] = PlusEq(partial[d], partial[s])]
  /\ joined' = joined \cup {s}
  /\ merges' = [merges EXCEPT ![s] = merges[s] + 1]
  /\ UNCHANGED <<storeVars, repeat, pc, minf, printed, owner, visited, opVars>>

\* a mutation of the executor: the return waits for every partial to be joined
\* into another, the last one standing included
FinishWaitsForAll(r) ==
  /\ pc = "reduce"
  /\ AllFolded
  /\ joined = Workers
  /\ minf' = Assign(minf, partial[r])
  /\ owner' = NoOwner
  /\ visited' = {}
  /\ joined' = {}
  /\ merges' = [merges EXCEPT ![r] = merges[r] + 1]
  /\ pc' = "print"
  /\ UNCHANGED <<storeVars, repeat, printed, partial, opVars>>

\* the last partial standing is assigned to the result and parallel_reduce
\* returns: the hand-out of the indices is over, the workers' scratch values stay
Finish(r) ==
  /\ pc = "reduce"
  /\ AllFolded
  /\ joined = Workers \ {r}
  /\ minf' = Assign(minf, partial[r])
  /\ owner' = NoOwner
  /\ visited' = {}
  /\ joined' = {}
  /\ merges' = [merges EXCEPT ![r] = merges[r] + 1]
  /\ pc' = "print"
  /\ UNCHANGED <<storeVars, repeat, printed, partial, opVars>>

\* printf("Min indx: %i with dist2 %lf\n", minf.index, minf.value); repeat++
PrintLine ==
  /\ pc = "print"
  /\ printed' = Append(printed, minf)
  /\ repeat' = repeat + 1
  /\ pc' = "loop"
  /\ UNCHANGED <<storeVars, minf, execVars, opVars>>

\* repeat < nrepeat fails: the loop is left
LoopExit ==
  /\ pc = "loop"
  /\ repeat >= NRepeat
  /\ pc' = "done"
  /\ UNCHANGED <<storeVars, repeat, minf, printed, execVars, opVars>>

Next ==
  \/ LoopEnter
  \/ \E w \in Workers : \E i \in 0..(MaxPoints - 1) : Fold(w, i)
  \/ \E d \in Workers : \E s \in Workers : Join(d, s)
  \/ \E r \in Workers : Finish(r)
  \/ PrintLine
  \/ LoopExit

Spec == Init /\ [][Next]_vars

\* main() with the search point at the origin and every point either there or
\* at MaxCoord on the x axis: the stores over which progress is checked
InitFair ==
  /\ Init
  /\ search = <<Fin(0), Fin(0), Fin(0)>>
  /\ \A i \in Indices : points[i] \in {search, <<Fin(MaxCoord), Fin(0), Fin(0)>>}

\* the worker threads keep running: a step that can be taken is taken
SpecFair == InitFair /\ [][Next]_vars /\ WF_vars(Next)

\* ------------------------------------------------------------------------
\* The same program run by one thread: worker 1 folds 0..N-1 in ascending order.
\* ------------------------------------------------------------------------
FoldAscending ==
  \E i \in 0..(MaxPoints - 1) :
    /\ \A j \in Indices : j < i => j \in visited
    /\ Fold(1, i)

NextSeq ==
  \/ LoopEnter
  \/ FoldAscending
  \/ \E d \in Workers : \E s \in Workers : Join(d, s)
  \/ \E r \in Workers : Finish(r)
  \/ PrintLine
  \/ LoopExit

SpecSeq == Init /\ [][NextSeq]_vars

\* ------------------------------------------------------------------------
\* operator += on its own, applied to the operands it receives in the program.
\* ------------------------------------------------------------------------
\* the MinFinders that reach += as accumulator or as operand: MinFinder() and
\* the pairs MinFinder(dist2, i) of the lambda, dist2 a sum of three squares of
\* differences of generated coordinates (at most 3 * 2^40, far below 1.0e200)
\* and i an index, with dist2 cut to 0..MaxVal and i to 0..MaxIdx
Candidates ==
  {MinFinderDefault} \cup {MinFinderOf(Fin(n), i) : n \in 0..MaxVal, i \in 0..MaxIdx}

InitOp ==
  /\ num_points = 0
  /\ points = [i \in {} |-> <<Fin(0), Fin(0), Fin(0)>>]
  /\ search = <<Fin(0), Fin(0), Fin(0)>>
  /\ repeat = 0
  /\ pc = "op"
  /\ minf = MinFinderDefault
  /\ printed = <<>>
  /\ owner = NoOwner
  /\ visited = {}
  /\ partial = InitPartials
  /\ joined = {}
  /\ merges = NoMerges
  /\ acc \in Candidates
  /\ accBefore = acc
  /\ arg = MinFinderDefault
  /\ applied = FALSE

\* acc += f
OpApply(f) ==
  /\ pc = "op"
  /\ accBefore' = acc
  /\ arg' = f
  /\ acc' = PlusEq(acc, f)
  /\ applied' = TRUE
  /\ UNCHANGED <<storeVars, repeat, pc, minf, printed, execVars>>

NextOp == \E f \in Candidates : OpApply(f)

SpecOp == InitOp /\ [][NextOp]_vars

\* ------------------------------------------------------------------------
\* Properties.
\* ------------------------------------------------------------------------
\* a == b on doubles: false whenever an operand is NaN
DEq(a, b) == a.k # "nan" /\ b.k # "nan" /\ a = b

\* the smallest squared distance found by scanning the indices i..num_points-1
\* one after the other, best being the smallest integer seen before i
RECURSIVE BruteForce(_, _)
BruteForce(i, best) ==
  IF i >= num_points THEN best
  ELSE BruteForce(i + 1, IF Dist2(i).v < best THEN Dist2(i).v ELSE best)

BruteForceMin == Fin(BruteForce(1, Dist2(0).v))

\* one worker folding the indices i..num_points-1 in ascending order into f
RECURSIVE SeqFold(_, _)
SeqFold(i, f) == IF i >= num_points THEN f ELSE SeqFold(i + 1, Body(i, f))

\* the indices no other index is strictly nearer than
ArgMin == {i \in Indices : \A j \in Indices : ~DLess(Dist2(j), Dist2(i))}

\* workers 1 and 2 each folded an index in the call that has just returned:
\* their partials hold the pairs of two different indices
TwoWorkersFolded ==
  /\ partial[1].index >= 0
  /\ partial[2].index >= 0
  /\ partial[1].index # partial[2].index

\* the results a call may return, as a function of the store and the search
\* point alone: MinFinder() over an empty store, else the pair of a nearest index
Outcomes ==
  IF num_points = 0
    THEN {MinFinderDefault}
    ELSE {MinFinderOf(Dist2(i), i) : i \in ArgMin}

\* C1: for a store of N > 0 points, whatever indices each worker was handed and
\* in whatever order the partials were joined, the value parallel_reduce leaves
\* in minf is the minimum squared distance a sequential scan of all points finds.
C1_ValueIsBruteForceMin ==
  (pc = "print" /\ num_points > 0) => minf.value = BruteForceMin

C1_Witness ==
  /\ pc = "print"
  /\ num_points = 2
  /\ TwoWorkersFolded
  /\ DLess(Dist2(1), Dist2(0))
  /\ minf.value = Dist2(1)

\* C2: for N > 0 the returned index is an index of the store, the returned value
\* is the squared distance of that very index, and no index is strictly nearer.
C2_IndexCarriesItsDistance ==
  (pc = "print" /\ num_points > 0) =>
    /\ minf.index \in Indices
    /\ minf.value = Dist2(minf.index)
    /\ \A j \in Indices : ~DLess(Dist2(j), minf.value)

C2_Witness ==
  /\ pc = "print"
  /\ num_points = 2
  /\ Dist2(0) = Dist2(1)
  /\ minf.index = 1

\* C3: over an empty store the reduction returns the "no result" value: the
\* index is the sentinel -1 and the value the initial 1.0e200, no point wins.
C3_EmptyStoreReturnsNone ==
  (pc = "print" /\ num_points = 0) => (minf.index = -1 /\ minf.value = E200)

C3_Witness == pc = "print" /\ num_points = 0 /\ repeat = 1

\* C4: however the indices are split among the workers and in whatever order the
\* partials are joined, the returned value is that of one sequential fold over
\* 0..N-1; the returned index differs from the fold's only on an exact tie.
C4_PartitionInvariance ==
  pc = "print" =>
    LET seq == SeqFold(0, MinFinderDefault) IN
      /\ minf.value = seq.value
      /\ minf.index # seq.index =>
           /\ minf.index \in Indices
           /\ seq.index \in Indices
           /\ DEq(Dist2(minf.index), Dist2(seq.index))

C4_Witness ==
  /\ pc = "print"
  /\ num_points = 2
  /\ TwoWorkersFolded
  /\ minf.index # SeqFold(0, MinFinderDefault).index

\* C5: whenever a run has printed its line, all runs of the reduction over the
\* same store and search point so far have printed the same value, and for
\* N > 0 every printed index is one of the nearest indices.
C5_RunsAgree ==
  pc = "loop" => \A a \in 1..Len(printed) :
    /\ \A b \in 1..Len(printed) : printed[a].value = printed[b].value
    /\ num_points > 0 => printed[a].index \in ArgMin

C5_Witness ==
  /\ pc = "loop"
  /\ Len(printed) = 2
  /\ printed[1].index # printed[2].index
  /\ Cardinality(ArgMin) = 2

\* C6: every call of parallel_reduce starts from fresh state and its result is
\* a function of the store and the search point: while the call runs minf is
\* the MinFinder() constructed in this iteration; before any index is folded or
\* any partial joined, every worker's partial is MinFinder() and nothing of the
\* executor's bookkeeping is left from earlier calls; and the pair the k-th call
\* returns is one of Outcomes, whatever calls 1..k-1 returned.
C6_FreshIdentityPerCall ==
  /\ pc = "reduce" => minf = MinFinderDefault
  /\ (pc = "reduce" /\ visited = {} /\ joined = {}) =>
       /\ \A w \in Workers : partial[w] = MinFinderDefault
       /\ owner = NoOwner
       /\ merges = NoMerges
  /\ pc = "print" => minf \in Outcomes

\* the second call has returned a nearest index other than the first call's
C6_Witness ==
  /\ pc = "print"
  /\ repeat = 1
  /\ printed[1].index >= 0
  /\ minf.index >= 0
  /\ minf.index # printed[1].index

\* C7: no step changes the points, the search point or the number of points, and
\* a step of a running reduction writes nothing but partials and the result.
C7_StoreNeverWritten ==
  [][/\ points' = points
     /\ search' = search
     /\ num_points' = num_points
     /\ pc = "reduce" => (repeat' = repeat /\ printed' = printed)]_vars

C7_Witness ==
  /\ pc = "done"
  /\ num_points = MaxPoints
  /\ Len(printed) = NRepeat
  /\ printed[1].index >= 0

\* C9: when the search point equals a stored point, the returned value is 0 and
\* the returned index is an index of a point at squared distance 0.
C9_QueryAtStoredPoint ==
  (pc = "print" /\ \E k \in Indices : points[k] = search) =>
    /\ minf.value = Fin(0)
    /\ minf.index \in Indices
    /\ Dist2(minf.index) = Fin(0)

C9_Witness ==
  /\ pc = "print"
  /\ num_points = 2
  /\ points[0] = search
  /\ points[1] = search
  /\ minf.index = 1

\* C10: a += b leaves a equal to one of the two operands as a whole pair: b when
\* b.value < a.value, a when a.value < b.value or a.value == b.value; the
\* indices play no part and no other pair comes out.
C10_CombinePicksAnOperand ==
  applied =>
    /\ acc \in {accBefore, arg}
    /\ DLess(arg.value, accBefore.value) => acc = arg
    /\ (DLess(accBefore.value, arg.value) \/ DEq(accBefore.value, arg.value)) =>
         acc = accBefore

C10_Witness ==
  /\ applied
  /\ DEq(accBefore.value, arg.value)
  /\ accBefore.index # arg.index
  /\ acc = accBefore

\* C11: the default MinFinder is neutral for += over the candidates the program
\* feeds it: MinFinder() += c leaves c and c += MinFinder() leaves c, value and
\* index alike, so a fold that starts from MinFinder() keeps the first candidate.
C11_IdentityNeutral ==
  applied =>
    /\ accBefore = MinFinderDefault => acc = arg
    /\ arg = MinFinderDefault => acc = accBefore

C11_Witness ==
  /\ applied
  /\ accBefore = MinFinderDefault
  /\ arg.index >= 0
  /\ arg.value = Fin(MaxVal)
  /\ acc = arg

\* the smaller of two doubles neither of which is NaN
DMin(a, b) == IF DLess(b, a) THEN b ELSE a

NotNaN(f) == f.value.k # "nan"

\* C12: on candidates whose value is a number, += is commutative and associative
\* on value: (a+b).value = (b+a).value = min(a.value, b.value) and
\* ((a+b)+c).value = (a+(b+c)).value for every c; the index of the two orders
\* or groupings differs only when operand values tie exactly.
C12_AssocCommOnValue ==
  (applied /\ NotNaN(accBefore) /\ NotNaN(arg)) =>
    LET a == accBefore
        b == arg
        ba == PlusEq(b, a)
    IN  /\ acc.value = DMin(a.value, b.value)
        /\ ba.value = acc.value
        /\ ba.index # acc.index => DEq(a.value, b.value)
        /\ \A c \in Candidates : NotNaN(c) =>
             LET l == PlusEq(acc, c)
                 r == PlusEq(a, PlusEq(b, c))
             IN  /\ l.value = r.value
                 /\ l.value = DMin(DMin(a.value, b.value), c.value)
                 /\ l.index # r.index =>
                      (DEq(a.value, b.value) \/ DEq(b.value, c.value)
                         \/ DEq(a.value, c.value))

C12_Witness ==
  /\ applied
  /\ DEq(accBefore.value, arg.value)
  /\ accBefore.value = Fin(0)
  /\ PlusEq(arg, accBefore).index # acc.index

\* C18: a += never raises the accumulator's value, and it changes the
\* accumulator's index only when it strictly lowers the value.
C18_ValueNeverRises ==
  applied =>
    /\ ~DLess(accBefore.value, acc.value)
    /\ acc.index # accBefore.index => DLess(acc.value, accBefore.value)

C18_Witness ==
  /\ applied
  /\ DLess(acc.value, accBefore.value)
  /\ acc.index # accBefore.index
  /\ accBefore.index >= 0

C14_EveryIndexOnceInRange ==
  [][pc = "reduce" =>
       /\ \A i \in visited \cup visited' :
            /\ Reads(i) \subseteq ViewCells
            /\ 0 <= i /\ i < num_points
       /\ pc' # "fault"
       /\ (owner' # owner /\ pc' = "reduce") =>
            \E i \in Indices \ visited :
              /\ visited' = visited \cup {i}
              /\ \A j \in visited : owner'[j] = owner[j]
       /\ pc' = "print" => visited = 0..(num_points - 1)]_vars

C14_Witness ==
  /\ pc = "reduce"
  /\ num_points = MaxPoints
  /\ visited = Indices
  /\ owner[0] # owner[1]
  /\ \A i \in visited : Reads(i) \subseteq ViewCells

C16_PairsStayTogether ==
  /\ pc = "reduce" =>
       \A w \in Workers :
         \/ partial[w] = [value |-> E200, index |-> -1]
         \/ \E i \in visited :
              /\ partial[w] = [value |-> Dist2(i), index |-> i]
              /\ owner[i] \in joined \cup {w}
  /\ pc \in {"reduce", "print"} =>
       \/ minf = [value |-> E200, index |-> -1]
       \/ \E i \in Indices : minf = [value |-> Dist2(i), index |-> i]

C16_Witness ==
  /\ pc = "reduce"
  /\ \E w \in Workers \ joined :
       /\ partial[w].index >= 0
       /\ owner[partial[w].index] # w

\* C17: run as one sequential fold over 0..N-1 in ascending order from the
\* default MinFinder, the reduction returns the lowest of the nearest indices.
C17_SequentialFoldLowestIndex ==
  (pc = "print" /\ num_points > 0) =>
    /\ minf.index \in ArgMin
    /\ \A j \in ArgMin : minf.index <= j

C17_Witness ==
  /\ pc = "print"
  /\ num_points = MaxPoints
  /\ Cardinality(ArgMin) >= 2
  /\ 0 \in ArgMin
  /\ minf.index = 0

====
